---- MODULE Spec2Model ----
(***************************************************************************)
(* A model of check.py, the Twitch stream monitor: the module-level        *)
(* configuration (lines 36-48), validate_config, get_oauth_token,          *)
(* check_multiple_streamers, display_status and the control loop of main.  *)
(*                                                                         *)
(* Python strings are tuples of one-character strings, so that str.lower,  *)
(* str.strip, str.split and int() are computed character by character.     *)
(* A Python dict is a tuple of [key, value] records in insertion order.    *)
(* A call that may raise is an operator returning [raised, value], where   *)
(* raised is the name of the exception class, or NoException.              *)
(***************************************************************************)
EXTENDS Integers, Sequences, FiniteSets, TLC

VARIABLES
    CLIENT_ID,          \* module global, line 40
    CLIENT_SECRET,      \* module global, line 41
    STREAMER_NAMES,     \* module global, lines 42-45
    CHECK_INTERVAL,     \* module global, line 48
    pc,                 \* where main is
    access_token,       \* local of main, line 213
    timestamp,          \* local of main, lines 219 and 228
    statuses,           \* local of main, line 220
    seconds_remaining,  \* loop variable of main, line 223
    clock,              \* wall-clock time in whole seconds
    report,             \* the last message main printed
    exc,                \* the last exception raised in main's try block
    sleeps,             \* every time.sleep performed so far
    authCalls,          \* requests.post calls issued
    fetchCalls,         \* requests.get calls issued
    token_reply,        \* the token endpoint's last reply
    streams_reply,      \* the streams endpoint's last reply
    renderLog,          \* display_status calls since the last fetch
    exitCode            \* the process's exit status once it has ended

vars == <<CLIENT_ID, CLIENT_SECRET, STREAMER_NAMES, CHECK_INTERVAL, pc,
          access_token, timestamp, statuses, seconds_remaining, clock, report,
          exc, sleeps, authCalls, fetchCalls, token_reply, streams_reply,
          renderLog, exitCode>>

config == <<CLIENT_ID, CLIENT_SECRET, STREAMER_NAMES, CHECK_INTERVAL>>

----------------------------------------------------------------------------
(* Bounds of the model. *)

MaxRecords == 2
MaxFetches == 2

----------------------------------------------------------------------------
(* Python values. *)

NoneVal == <<"<None>">>
NoException == "NoException"
Returned(v) == [raised |-> NoException, value |-> v]
Raised(t) == [raised |-> t, value |-> NoneVal]

Truthy(v) == v # NoneVal /\ v # <<>>

\* The class hierarchy that the except clauses of main test against.
IsValueError(t) == t \in {"ValueError", "JSONDecodeError"}
IsException(t) == t # "KeyboardInterrupt"

LowerChar(c) == IF c = "A" THEN "a" ELSE IF c = "B" THEN "b" ELSE c

lower_identity(s) == s
lower(s) == [i \in DOMAIN s |-> LowerChar(s[i])]

IsSpace(c) == c = " "

RECURSIVE LStrip(_)
LStrip(s) == IF s # <<>> /\ IsSpace(Head(s)) THEN LStrip(Tail(s)) ELSE s

RECURSIVE RStrip(_)
RStrip(s) ==
    IF s # <<>> /\ IsSpace(s[Len(s)]) THEN RStrip(SubSeq(s, 1, Len(s) - 1)) ELSE s

strip(s) == RStrip(LStrip(s))

\* str.split(sep) for a one-character separator: "" gives [""].
RECURSIVE SplitFrom(_, _, _)
SplitFrom(s, sep, cur) ==
    IF s = <<>> THEN <<cur>>
    ELSE IF Head(s) = sep THEN <<cur>> \o SplitFrom(Tail(s), sep, <<>>)
    ELSE SplitFrom(Tail(s), sep, Append(cur, Head(s)))

split(s, sep) == SplitFrom(s, sep, <<>>)

DigitValue(c) ==
    CASE c = "0" -> 0 [] c = "1" -> 1 [] c = "2" -> 2 [] c = "3" -> 3
      [] c = "4" -> 4 [] c = "5" -> 5 [] c = "6" -> 6 [] c = "7" -> 7
      [] c = "8" -> 8 [] c = "9" -> 9

RECURSIVE DigitsValue(_, _)
DigitsValue(s, acc) ==
    IF s = <<>> THEN acc ELSE DigitsValue(Tail(s), acc * 10 + DigitValue(Head(s)))

\* int(text) for a text that int accepts: an optional sign, then digits.
int(text) ==
    IF Head(text) = "-" THEN 0 - DigitsValue(Tail(text), 0)
    ELSE DigitsValue(text, 0)

----------------------------------------------------------------------------
(* dict *)

EmptyDict == <<>>
DictKeys(d) == [i \in DOMAIN d |-> d[i].key]
DictHas(d, k) == \E i \in DOMAIN d : d[i].key = k
DictGet(d, k) == d[CHOOSE i \in DOMAIN d : d[i].key = k].value
DictSet(d, k, v) ==
    IF DictHas(d, k)
    THEN [i \in DOMAIN d |-> IF d[i].key = k THEN [key |-> k, value |-> v] ELSE d[i]]
    ELSE Append(d, [key |-> k, value |-> v])

----------------------------------------------------------------------------
(* Module-level configuration, lines 36-48.  file is env_vars.get(KEY) and *)
(* environ is the process environment's value, NoneVal when absent.        *)

OrElse(a, b) == IF Truthy(a) THEN a ELSE b
EnvironGet(v, default) == IF v = NoneVal THEN default ELSE v

LoadCredential(file, environ) == OrElse(file, environ)

CleanNames(parts) == SelectSeq([i \in DOMAIN parts |-> strip(parts[i])], Truthy)

LoadStreamerNames(file, environ) ==
    CleanNames(split(OrElse(file, EnvironGet(environ, <<>>)), ","))

DefaultCheckInterval == <<"6", "0">>

LoadCheckInterval(file, environ) ==
    int(OrElse(file, EnvironGet(environ, DefaultCheckInterval)))

\* The values the environment may hold.
CredentialTexts == {NoneVal, <<>>, <<"i", "d">>}

RawNameTexts ==
    { NoneVal,
      <<>>,
      <<",">>,
      <<"a">>,
      <<"a", ",", "A">>,
      <<"A", ",", "a">>,
      <<"a", ",", "b">>,
      <<"a", ",", "a">>,
      <<" ", "a", " ", ",", ",", "B">>,
      <<"b", ",", " ", "A", ",", "a">> }

\* Texts int() accepts; any other text stops the program while it is loaded.
IntervalTexts == { <<"-", "1">>, <<"0">>, <<"2">> }

----------------------------------------------------------------------------
(* validate_config, lines 77-84 *)

validate_config_no_names(id, secret, names) ==
    IF ~Truthy(id) THEN Raised("ValueError")
    ELSE IF ~Truthy(secret) THEN Raised("ValueError")
    ELSE Returned(NoneVal)

validate_config(id, secret, names) ==
    IF ~Truthy(id) THEN Raised("ValueError")
    ELSE IF ~Truthy(secret) THEN Raised("ValueError")
    ELSE IF names = <<>> THEN Raised("ValueError")
    ELSE Returned(NoneVal)

----------------------------------------------------------------------------
(* The HTTP transport.  requests.post and requests.get either raise or     *)
(* give a response with a status code and a body.                          *)

HTTP_OK == 200

Response(status, isJson, hasKey, payload) ==
    [kind |-> "response", type |-> NoException, status_code |-> status,
     json |-> isJson, has_key |-> hasKey, payload |-> payload]

TransportFailure ==
    [kind |-> "raise", type |-> "ConnectionError", status_code |-> 0,
     json |-> FALSE, has_key |-> FALSE, payload |-> <<>>]

NoReply ==
    [kind |-> "none", type |-> NoException, status_code |-> 0,
     json |-> FALSE, has_key |-> FALSE, payload |-> <<>>]

StatusCodes == {HTTP_OK, 204, 401, 503}

BearerToken == <<"t", "o", "k">>

TokenReplies ==
    {TransportFailure}
    \cup {Response(s, TRUE, TRUE, BearerToken) : s \in StatusCodes}
    \cup {Response(HTTP_OK, TRUE, FALSE, <<>>), Response(HTTP_OK, FALSE, FALSE, <<>>)}

(* get_oauth_token, lines 86-99 *)

get_oauth_token_any_2xx(reply) ==
    IF reply.kind = "raise" THEN Raised(reply.type)
    ELSE IF reply.status_code < 300
    THEN IF ~reply.json THEN Raised("JSONDecodeError")
         ELSE IF ~reply.has_key THEN Raised("KeyError")
         ELSE Returned(reply.payload)
    ELSE Raised("Exception")

get_oauth_token(reply) ==
    IF reply.kind = "raise" THEN Raised(reply.type)
    ELSE IF reply.status_code = HTTP_OK
    THEN IF ~reply.json THEN Raised("JSONDecodeError")
         ELSE IF ~reply.has_key THEN Raised("KeyError")
         ELSE Returned(reply.payload)
    ELSE Raised("Exception")

----------------------------------------------------------------------------
(* check_multiple_streamers, lines 101-139 *)

StreamInfo(login, viewers) ==
    [user_login |-> login, title |-> "title", game_name |-> "game",
     viewer_count |-> viewers, started_at |-> "started"]

\* The records a response may carry: two logins that differ in case only (and
\* in their viewer counts), and two others.
StreamInfos ==
    { StreamInfo(<<"a">>, 7), StreamInfo(<<"A">>, 1500),
      StreamInfo(<<"b">>, 7), StreamInfo(<<"c">>, 7) }

SeqsUpTo(S, n) == UNION {[1..k -> S] : k \in 0..n}

StreamsReplies ==
    {TransportFailure}
    \cup {Response(HTTP_OK, TRUE, TRUE, data) : data \in SeqsUpTo(StreamInfos, MaxRecords)}
    \cup {Response(s, TRUE, TRUE, <<>>) : s \in StatusCodes \ {HTTP_OK}}
    \cup {Response(HTTP_OK, TRUE, FALSE, <<>>), Response(HTTP_OK, FALSE, FALSE, <<>>)}

LiveStatus(stream_info) ==
    [is_live |-> TRUE, title |-> stream_info.title, game |-> stream_info.game_name,
     viewer_count |-> stream_info.viewer_count, started_at |-> stream_info.started_at]

OfflineStatus == [is_live |-> FALSE]

\* lines 118-126
RECURSIVE LiveStreamers(_, _)
LiveStreamers(data, live) ==
    IF data = <<>> THEN live
    ELSE LiveStreamers(Tail(data),
                       DictSet(live, lower(Head(data).user_login), LiveStatus(Head(data))))

\* lines 129-135
RECURSIVE StatusOfEach(_, _, _)
StatusOfEach(names, live, result) ==
    IF names = <<>> THEN result
    ELSE LET name == Head(names)
             name_lower == lower(name)
         IN  StatusOfEach(Tail(names), live,
                 DictSet(result, name,
                         IF DictHas(live, name_lower) THEN DictGet(live, name_lower)
                         ELSE OfflineStatus))

check_multiple_streamers(streamer_names, token, reply) ==
    IF reply.kind = "raise" THEN Raised(reply.type)
    ELSE IF reply.status_code = HTTP_OK
    THEN IF ~reply.json THEN Raised("JSONDecodeError")
         ELSE IF ~reply.has_key THEN Raised("KeyError")
         ELSE Returned(StatusOfEach(streamer_names,
                                    LiveStreamers(reply.payload, EmptyDict), EmptyDict))
    ELSE Raised("Exception")

----------------------------------------------------------------------------
(* display_status, lines 147-201.  str.format looks a replacement field    *)
(* whose name is a number up among the positional arguments and any other  *)
(* field name up among the keyword arguments, and raises when it is absent.*)

PositionalField(i) == [positional |-> TRUE, index |-> i, name |-> ""]
KeywordField(n) == [positional |-> FALSE, index |-> 0, name |-> n]

StrFormatRaises(fields, nargs, kwargs) ==
    IF \E i \in DOMAIN fields : fields[i].positional /\ fields[i].index >= nargs
    THEN "IndexError"
    ELSE IF \E i \in DOMAIN fields : ~fields[i].positional /\ fields[i].name \notin kwargs
    THEN "KeyError"
    ELSE NoException

\* "{0}{1}={'=' * 78}{2}".format(Colors.BOLD, Colors.CYAN, Colors.RESET), line 152
HeaderFields ==
    <<PositionalField(0), PositionalField(1), KeywordField("'=' * 78"), PositionalField(2)>>

display_status(snapshot, last_update, remaining) ==
    LET header == StrFormatRaises(HeaderFields, 3, {})
        live == SelectSeq(snapshot, LAMBDA e : e.value.is_live)
        offline == SelectSeq(snapshot, LAMBDA e : ~e.value.is_live)
    IN  IF header # NoException THEN Raised(header)
        ELSE Returned([live |-> DictKeys(live), offline |-> DictKeys(offline),
                       last_update |-> last_update, seconds_remaining |-> remaining])

(* time.sleep *)
time_sleep(secs) == IF secs < 0 THEN Raised("ValueError") ELSE Returned(secs)

----------------------------------------------------------------------------
(* main, lines 203-245 *)

StartupDelay == 2
TickDelay == 1

BackoffDelayDoubled == 2 * CHECK_INTERVAL
\* line 232
BackoffDelay == CHECK_INTERVAL

NoTimestamp == [at |-> 0, line |-> 0, attempt |-> 0]

PollTimestampStale(attempt) == timestamp
\* line 219: datetime.now() read at the start of fetch number attempt
PollTimestamp(attempt) == [at |-> clock, line |-> 219, attempt |-> attempt]

\* line 228
ErrorTimestamp(attempt) == [at |-> clock, line |-> 228, attempt |-> attempt]

Message(kind, detail, hint) == [kind |-> kind, detail |-> detail, hint |-> hint]

InnerHandlerCatchesAll(t) == TRUE
InnerHandlerCatchesRequestErrors(t) == t \in {"Exception", "ConnectionError"}
\* line 227: except Exception
InnerHandlerCatches(t) == IsException(t)

\* lines 234-245: what the except clauses of the outer try print
OuterHandler(t) ==
    IF t = "KeyboardInterrupt" THEN Message("Farewell", NoException, FALSE)
    ELSE IF IsValueError(t) THEN Message("ConfigurationError", t, TRUE)
    ELSE Message("Error", t, FALSE)

NewExc(t) == [type |-> t, at |-> pc, n |-> exc.n + 1]

\* An exception reaches the outer try: its handler prints and main returns.
ToOuterHandler(t) ==
    /\ exc' = NewExc(t)
    /\ pc' = IF t = "KeyboardInterrupt" THEN "Stopped" ELSE "Exited"
    /\ report' = OuterHandler(t)
    /\ exitCode' = {0}
    /\ UNCHANGED timestamp

\* lines 227-231: the handler of the inner try, up to its sleep
ToInnerHandler(t, attempt) ==
    /\ exc' = NewExc(t)
    /\ pc' = "ErrorBackoff"
    /\ timestamp' = ErrorTimestamp(attempt)
    /\ report' = Message("ErrorRetry", t, FALSE)
    /\ UNCHANGED exitCode

\* An exception raised inside the inner try, lines 218-225.
RaiseInLoop(t, attempt) ==
    IF InnerHandlerCatches(t) THEN ToInnerHandler(t, attempt) ELSE ToOuterHandler(t)

Init ==
    /\ CLIENT_ID \in {LoadCredential(f, e) : f \in CredentialTexts, e \in CredentialTexts}
    /\ CLIENT_SECRET \in {LoadCredential(f, e) : f \in CredentialTexts, e \in CredentialTexts}
    /\ STREAMER_NAMES \in {LoadStreamerNames(f, e) : f \in RawNameTexts, e \in RawNameTexts}
    /\ CHECK_INTERVAL \in {LoadCheckInterval(f, e) :
                               f \in {NoneVal, <<>>} \cup IntervalTexts,
                               e \in {NoneVal} \cup IntervalTexts}
    /\ pc = "Starting"
    /\ access_token = NoneVal
    /\ timestamp = NoTimestamp
    /\ statuses = EmptyDict
    /\ seconds_remaining = 0
    /\ clock = 0
    /\ report = Message("Nothing", NoException, FALSE)
    /\ exc = [type |-> NoException, at |-> "", n |-> 0]
    /\ sleeps = {}
    /\ authCalls = 0
    /\ fetchCalls = 0
    /\ token_reply = NoReply
    /\ streams_reply = NoReply
    /\ renderLog = <<>>
    /\ exitCode = {}

\* lines 205-210
Validate ==
    /\ pc = "Starting"
    /\ LET r == validate_config(CLIENT_ID, CLIENT_SECRET, STREAMER_NAMES)
       IN  IF r.raised # NoException
           THEN ToOuterHandler(r.raised)
           ELSE /\ pc' = "Authenticating"
                /\ report' = Message("Initializing", NoException, FALSE)
                /\ UNCHANGED <<exc, exitCode, timestamp>>
    /\ UNCHANGED <<config, access_token, statuses, seconds_remaining, clock, sleeps,
                   authCalls, fetchCalls, token_reply, streams_reply, renderLog>>

\* lines 213-215
Authenticate ==
    /\ pc = "Authenticating"
    /\ \E reply \in TokenReplies :
          /\ authCalls' = authCalls + 1
          /\ token_reply' = reply
          /\ LET r == get_oauth_token(reply)
             IN  IF r.raised # NoException
                 THEN /\ ToOuterHandler(r.raised)
                      /\ UNCHANGED <<access_token, clock, sleeps>>
                 ELSE /\ access_token' = r.value
                      /\ report' = Message("Authenticated", NoException, FALSE)
                      /\ sleeps' = sleeps \cup {[state |-> "Starting", seconds |-> StartupDelay]}
                      /\ clock' = clock + StartupDelay
                      /\ pc' = "Polling"
                      /\ UNCHANGED <<exc, exitCode, timestamp>>
    /\ UNCHANGED <<config, statuses, seconds_remaining, fetchCalls, streams_reply,
                   renderLog>>

\* lines 219-223: one fetch, and the entry into the countdown loop
Poll ==
    /\ pc = "Polling"
    /\ fetchCalls < MaxFetches
    /\ \E reply \in StreamsReplies :
          /\ fetchCalls' = fetchCalls + 1
          /\ streams_reply' = reply
          /\ renderLog' = <<>>
          /\ LET r == check_multiple_streamers(STREAMER_NAMES, access_token, reply)
             IN  IF r.raised # NoException
                 THEN /\ RaiseInLoop(r.raised, fetchCalls + 1)
                      /\ UNCHANGED <<statuses, seconds_remaining>>
                 ELSE /\ timestamp' = PollTimestamp(fetchCalls + 1)
                      /\ statuses' = r.value
                      /\ IF CHECK_INTERVAL > 0
                         THEN pc' = "CountingDown" /\ seconds_remaining' = CHECK_INTERVAL
                         ELSE pc' = "Polling" /\ UNCHANGED seconds_remaining
                      /\ UNCHANGED <<exc, exitCode, report>>
    /\ UNCHANGED <<config, access_token, clock, sleeps, authCalls, token_reply>>

\* lines 223-225: one iteration of the countdown loop
CountdownStep ==
    /\ pc = "CountingDown"
    /\ LET r == display_status(statuses, timestamp, seconds_remaining)
       IN  /\ renderLog' = Append(renderLog,
                                  [statuses |-> statuses, last_update |-> timestamp,
                                   seconds_remaining |-> seconds_remaining,
                                   completed |-> r.raised = NoException])
           /\ IF r.raised # NoException
              THEN /\ RaiseInLoop(r.raised, fetchCalls)
                   /\ UNCHANGED <<seconds_remaining, clock, sleeps>>
              ELSE /\ report' = Message("Dashboard", NoException, FALSE)
                   /\ sleeps' = sleeps \cup {[state |-> "CountingDown", seconds |-> TickDelay]}
                   /\ clock' = clock + TickDelay
                   /\ IF seconds_remaining - 1 > 0
                      THEN pc' = "CountingDown" /\ seconds_remaining' = seconds_remaining - 1
                      ELSE pc' = "Polling" /\ UNCHANGED seconds_remaining
                   /\ UNCHANGED <<exc, exitCode, timestamp>>
    /\ UNCHANGED <<config, access_token, statuses, authCalls, fetchCalls, token_reply,
                   streams_reply>>

\* line 232: the sleep of the inner handler; what it raises leaves the inner try
Backoff ==
    /\ pc = "ErrorBackoff"
    /\ LET r == time_sleep(BackoffDelay)
       IN  IF r.raised # NoException
           THEN /\ ToOuterHandler(r.raised)
                /\ UNCHANGED <<clock, sleeps>>
           ELSE /\ sleeps' = sleeps \cup {[state |-> "ErrorBackoff", seconds |-> r.value]}
                /\ clock' = clock + r.value
                /\ pc' = "Polling"
                /\ UNCHANGED <<exc, exitCode, timestamp, report>>
    /\ UNCHANGED <<config, access_token, statuses, seconds_remaining, authCalls,
                   fetchCalls, token_reply, streams_reply, renderLog>>

\* The operator's Ctrl+C: KeyboardInterrupt raised wherever main is.
Interrupt ==
    /\ pc \in {"Starting", "Authenticating", "Polling", "CountingDown", "ErrorBackoff"}
    /\ IF pc \in {"Polling", "CountingDown"}
       THEN RaiseInLoop("KeyboardInterrupt", fetchCalls)
       ELSE ToOuterHandler("KeyboardInterrupt")
    /\ UNCHANGED <<config, access_token, statuses, seconds_remaining, clock, sleeps,
                   authCalls, fetchCalls, token_reply, streams_reply, renderLog>>

Next ==
    \/ Validate
    \/ Authenticate
    \/ Poll
    \/ CountdownStep
    \/ Backoff
    \/ Interrupt

Spec == Init /\ [][Next]_vars

----------------------------------------------------------------------------
(* Vocabulary of the properties. *)

Farewell == Message("Farewell", NoException, FALSE)

\* This step raised an exception of class t while main was at p.
RaisedNow(p, t) == pc = p /\ exc'.n = exc.n + 1 /\ exc'.type = t

\* The last streams reply was a non-200 response.
FetchRejected(reply) == reply.kind = "response" /\ reply.status_code # 200

\* The last streams reply was a 200 response carrying a list of records.
FetchAccepted(reply) ==
    reply.kind = "response" /\ reply.status_code = 200 /\ reply.json /\ reply.has_key

CasePairs == { {"a", "A"}, {"b", "B"} }

EqIgnoreCase(x, y) ==
    /\ Len(x) = Len(y)
    /\ \A i \in DOMAIN x : x[i] = y[i] \/ {x[i], y[i]} \in CasePairs

\* The names of a list in order, a repeated name at its first place only.
RECURSIVE Distinct(_, _)
Distinct(names, seen) ==
    IF names = <<>> THEN seen
    ELSE Distinct(Tail(names),
                  IF \E i \in DOMAIN seen : seen[i] = Head(names) THEN seen
                  ELSE Append(seen, Head(names)))

ConfigComplete ==
    Truthy(CLIENT_ID) /\ Truthy(CLIENT_SECRET) /\ Len(STREAMER_NAMES) > 0

----------------------------------------------------------------------------
(* C1: a non-200 response from the streams endpoint puts the loop in       *)
(* ErrorBackoff without ending the process, and from ErrorBackoff the loop, *)
(* unless the operator interrupts, waits the full poll interval and polls   *)
(* again with the same token and the same names.                            *)
C1_FailedPollBacksOffAndRetries ==
    [][ /\ (pc = "Polling" /\ fetchCalls' = fetchCalls + 1 /\ FetchRejected(streams_reply'))
             => (pc' = "ErrorBackoff" /\ exitCode' = {})
        /\ (pc = "ErrorBackoff" /\ exc.type = "Exception" /\ exc.at = "Polling"
               /\ pc' # "Stopped")
             => /\ pc' = "Polling"
                /\ clock' = clock + CHECK_INTERVAL
                /\ access_token' = access_token
                /\ STREAMER_NAMES' = STREAMER_NAMES
                /\ exitCode' = {} ]_vars

(* C2: an operator interrupt raised while main is in the countdown loop     *)
(* goes straight to Stopped: the farewell is printed, the exit code is 0,   *)
(* nothing is fetched, rendered or slept, the per-cycle handler does not    *)
(* take it, and nothing happens once Stopped.                               *)
C2_InterruptInCountdownStops ==
    [][ /\ pc # "Stopped"
        /\ RaisedNow("CountingDown", "KeyboardInterrupt")
             => /\ pc' = "Stopped"
                /\ report' = Farewell
                /\ exitCode' = {0}
                /\ fetchCalls' = fetchCalls
                /\ renderLog' = renderLog
                /\ sleeps' = sleeps
                /\ clock' = clock ]_vars

C2_Witness ==
    pc = "Stopped" /\ exc.type = "KeyboardInterrupt" /\ exc.at = "CountingDown"

(* C3: when the token endpoint answers with a status other than 200, the    *)
(* process has ended with the error reported, after exactly one             *)
(* authentication request and no streams fetch, and holds no token.         *)
C3_AuthFailureIsFatal ==
    (token_reply.kind = "response" /\ token_reply.status_code # 200)
        => /\ pc = "Exited"
           /\ authCalls = 1
           /\ fetchCalls = 0
           /\ access_token = NoneVal
           /\ report = Message("Error", "Exception", FALSE)
           /\ exc.at = "Authenticating"

C3_Witness ==
    pc = "Exited" /\ token_reply.kind = "response" /\ token_reply.status_code = 204

(* C4: after a 200 response, the keys of the status mapping are the         *)
(* configured names, spelled as configured and in configured order (a name  *)
(* configured twice is one key), and a name is Live exactly when some       *)
(* record's login equals it ignoring case; every other name is Offline.     *)
C4_StatusMapCoversConfiguredNames ==
    FetchAccepted(streams_reply)
        => /\ DictKeys(statuses) = Distinct(STREAMER_NAMES, <<>>)
           /\ \A i \in DOMAIN statuses :
                 /\ statuses[i].value.is_live
                      <=> \E j \in DOMAIN streams_reply.payload :
                             EqIgnoreCase(streams_reply.payload[j].user_login,
                                          statuses[i].key)
                 /\ ~statuses[i].value.is_live => statuses[i].value = OfflineStatus

C4_Witness ==
    /\ FetchAccepted(streams_reply)
    /\ \E i \in DOMAIN statuses :
          /\ statuses[i].value.is_live
          /\ \A j \in DOMAIN streams_reply.payload :
                streams_reply.payload[j].user_login # statuses[i].key
    /\ \E i \in DOMAIN statuses : ~statuses[i].value.is_live
    /\ \E j \in DOMAIN streams_reply.payload :
          \A i \in DOMAIN STREAMER_NAMES :
             ~EqIgnoreCase(streams_reply.payload[j].user_login, STREAMER_NAMES[i])

(* C5, as the specification states it: an exception raised during a poll    *)
(* cycle that is neither the non-200 failure of the fetch nor the           *)
(* operator's interrupt is printed as an error and ends the process.        *)
C5_UnexpectedErrorExits ==
    [][ \A t \in {"ConnectionError", "KeyError", "JSONDecodeError"} :
          (RaisedNow("Polling", t) \/ RaisedNow("CountingDown", t))
             => (pc' = "Exited" /\ report'.kind = "Error") ]_vars

(* C5, amended: such an exception is taken by the per-cycle handler exactly *)
(* as a non-200 failure is: it is reported with a fresh timestamp, the      *)
(* process goes on, and the next state is ErrorBackoff.                     *)
C5_UnexpectedErrorBacksOff ==
    [][ \A t \in {"ConnectionError", "KeyError", "JSONDecodeError"} :
          (RaisedNow("Polling", t) \/ RaisedNow("CountingDown", t))
             => /\ pc' = "ErrorBackoff"
                /\ report' = Message("ErrorRetry", t, FALSE)
                /\ timestamp'.line = 228
                /\ exitCode' = {} ]_vars

C5_Witness ==
    pc = "ErrorBackoff" /\ exc.type = "JSONDecodeError" /\ exc.at = "Polling"

(* C6: with the client identifier, the client secret or the channel list    *)
(* missing or empty, no authentication request and no fetch is ever issued  *)
(* and the process ends reporting a configuration error with the example    *)
(* keys; authentication is only attempted on a complete configuration, and  *)
(* a fetch only after the one authentication request returned a token.      *)
C6_ValidationThenAuthThenPolling ==
    /\ ~ConfigComplete
         => /\ authCalls = 0
            /\ fetchCalls = 0
            /\ pc \in {"Starting", "Exited", "Stopped"}
            /\ pc = "Exited"
                 => (report = Message("ConfigurationError", "ValueError", TRUE)
                       /\ exc.at = "Starting")
    /\ authCalls > 0 => (ConfigComplete /\ pc # "Starting")
    /\ fetchCalls > 0
         => (authCalls = 1 /\ access_token # NoneVal /\ token_reply.status_code = 200)

C6_Witness ==
    /\ pc = "Exited"
    /\ Truthy(CLIENT_ID) /\ Truthy(CLIENT_SECRET) /\ STREAMER_NAMES = <<>>
    /\ report.kind = "ConfigurationError"

(* C7: every iteration of the countdown loop that the operator does not     *)
(* interrupt completes its render, waits one second, and then either goes   *)
(* on with the next lower value or, after the value 1, returns to Polling;  *)
(* nothing is fetched meanwhile.                                            *)
C7_CountdownRendersEverySecond ==
    [][ (pc = "CountingDown" /\ pc' # "Stopped")
          => /\ seconds_remaining >= 1
             /\ Len(renderLog') = Len(renderLog) + 1
             /\ renderLog'[Len(renderLog')].completed
             /\ renderLog'[Len(renderLog')].seconds_remaining
                   = CHECK_INTERVAL - Len(renderLog)
             /\ clock' = clock + 1
             /\ fetchCalls' = fetchCalls
             /\ IF seconds_remaining > 1
                THEN pc' = "CountingDown" /\ seconds_remaining' = seconds_remaining - 1
                ELSE pc' = "Polling" ]_vars

(* C8, as the specification states it: every wait is the one-second wait   *)
(* of CountingDown or the poll-interval wait of ErrorBackoff.               *)
C8_OnlyLoopSleeps ==
    \A s \in sleeps :
       \/ s.state = "CountingDown" /\ s.seconds = 1
       \/ s.state = "ErrorBackoff" /\ s.seconds = CHECK_INTERVAL

(* C8, amended: every wait is the one-second wait of CountingDown, the      *)
(* poll-interval wait of ErrorBackoff, or the two-second wait that Starting *)
(* makes once the token has been obtained.                                  *)
C8_SleepsAreStartupTickOrBackoff ==
    \A s \in sleeps :
       \/ s.state = "CountingDown" /\ s.seconds = 1
       \/ s.state = "ErrorBackoff" /\ s.seconds = CHECK_INTERVAL
       \/ s.state = "Starting" /\ s.seconds = 2 /\ access_token # NoneVal

C8_Witness ==
    /\ [state |-> "Starting", seconds |-> 2] \in sleeps
    /\ [state |-> "ErrorBackoff", seconds |-> CHECK_INTERVAL] \in sleeps
    /\ pc = "Polling"

(* C9: from Polling onward the poll interval is a positive integer, and the *)
(* wait of ErrorBackoff never raises.                                       *)
C9_IntervalPositiveInLoop ==
    /\ pc \in {"Polling", "CountingDown", "ErrorBackoff"} => CHECK_INTERVAL >= 1
    /\ exc.at = "ErrorBackoff" => exc.type = "KeyboardInterrupt"

(* C10: every render since the last fetch was given the snapshot that this  *)
(* fetch, a successful one, returned, and the timestamp read at line 219    *)
(* for this fetch, never the one of the failure path.                       *)
C10_RenderShowsLatestSuccessfulPoll ==
    \A i \in DOMAIN renderLog :
       LET fresh == check_multiple_streamers(STREAMER_NAMES, access_token, streams_reply)
       IN  /\ FetchAccepted(streams_reply)
           /\ fresh.raised = NoException
           /\ renderLog[i].statuses = fresh.value
           /\ renderLog[i].last_update.line = 219
           /\ renderLog[i].last_update.attempt = fetchCalls

C10_Witness ==
    /\ renderLog # <<>>
    /\ fetchCalls = 2
    /\ \E i \in DOMAIN statuses : statuses[i].value.is_live

====
